---------------------------- MODULE Spec2Model ----------------------------
(***************************************************************************)
(* A model of python-roborock's REST client (roborock/web_api.py):         *)
(* the two process-wide rate limiters, the Hawk request signer and the     *)
(* REST operations of RoborockApiClient.                                   *)
(*                                                                         *)
(* Strings that the code formats, sorts or joins are sequences of          *)
(* one-character strings; digests (md5 hexdigest, HMAC-SHA256, base64)     *)
(* are ideal: a tagged copy of what was hashed.  Time is in milliseconds,  *)
(* the unit of the limiter's clock.                                        *)
(***************************************************************************)
EXTENDS Integers, Sequences, FiniteSets, TLC

VARIABLES
    now,        \* the wall clock, milliseconds
    buckets,    \* limiter object -> timestamps of the admitted acquisitions
    base_url,   \* client -> RoborockApiClient.base_url
    tasks,      \* task -> the REST operation it runs and where that stands
    lim_last,   \* limiter harness: outcome of the last try_acquire
    hawk,       \* signer harness: inputs and output of _get_hawk_authentication
    extra,      \* signer harness: input and output of _process_extra_hawk_values
    http,       \* PreparedRequest.request: the HTTP sessions and where the request stands
    capture,    \* parser command: the packets seen, the buffer, the decode calls
    mqtt,       \* session command: the broker session, its subscriptions, the position
    disp        \* dispatcher: the pending requests, the callers, the unsolicited sink

vars == <<now, buckets, base_url, tasks, lim_last, hawk, extra, http, capture, mqtt, disp>>

(***************************************************************************)
(* Values.  Every scalar the code handles (str, int, None) is a sequence   *)
(* of strings: a str is the sequence of its characters, an int is the tag  *)
(* "#int" followed by its decimal digits, None is <<"#none">>.             *)
(***************************************************************************)
None == <<"#none">>

DigitChar(d) ==
    CASE d = 0 -> "0" [] d = 1 -> "1" [] d = 2 -> "2" [] d = 3 -> "3" [] d = 4 -> "4"
      [] d = 5 -> "5" [] d = 6 -> "6" [] d = 7 -> "7" [] d = 8 -> "8" [] OTHER -> "9"

RECURSIVE Decimal(_)
Decimal(n) == IF n < 10 THEN <<DigitChar(n)>> ELSE Append(Decimal(n \div 10), DigitChar(n % 10))

IntV(n) == <<"#int">> \o Decimal(n)

\* str(v) / f"{v}": a str stays itself, an int becomes its digits, None becomes "None".
Str(v) ==
    IF v = None THEN <<"N", "o", "n", "e">>
    ELSE IF v # <<>> /\ Head(v) = "#int" THEN Tail(v)
    ELSE v

(***************************************************************************)
(* Bounds of the model.                                                    *)
(***************************************************************************)
MaxParams   == 2    \* entries of a parameter dict in the signer harness
MaxLimSteps == 3    \* steps of the limiter harness after its initial history

(***************************************************************************)
(* Strings.                                                                *)
(***************************************************************************)
\* Code points of the characters that are sorted (Python compares str by code point).
CharCode(c) ==
    CASE c = "&" -> 38
      [] c = "=" -> 61
      [] c = "a" -> 97
      [] c = "b" -> 98
      [] c = "d" -> 100
      [] c = "h" -> 104
      [] c = "i" -> 105
      [] c = "s" -> 115
      [] c = "t" -> 116
      [] c = "z" -> 122
      [] OTHER   -> 0

RECURSIVE StrLess(_, _)
\* a < b for Python str: lexicographic by code point, a proper prefix is smaller.
StrLess(a, b) ==
    IF b = <<>> THEN FALSE
    ELSE IF a = <<>> THEN TRUE
    ELSE IF CharCode(Head(a)) < CharCode(Head(b)) THEN TRUE
    ELSE IF CharCode(Head(a)) > CharCode(Head(b)) THEN FALSE
    ELSE StrLess(Tail(a), Tail(b))

RECURSIVE Join(_, _)
\* sep.join(parts)
Join(parts, sep) ==
    IF parts = <<>> THEN <<>>
    ELSE IF Len(parts) = 1 THEN parts[1]
    ELSE parts[1] \o sep \o Join(Tail(parts), sep)

\* hashlib.md5(x.encode()).hexdigest(): an ideal digest, the hashed text between
\* two marks that no text contains.
Md5(x) == <<"md5(">> \o x \o <<")">>

\* base64.b64encode(hmac.new(key, msg, sha256).digest()).decode(), ideal as well.
HmacB64(key, msg) == <<"hmac(">> \o key \o <<",">> \o msg \o <<")">>

(***************************************************************************)
(* A dict of parameters holds its <<key, value>> pairs in insertion order, *)
(* keys distinct; NoDict is the argument None.                             *)
(***************************************************************************)
NoDict == [none |-> TRUE, items |-> <<>>]

Dict(pairs) == [none |-> FALSE, items |-> pairs]

DictKeys(d) == [i \in 1..Len(d.items) |-> d.items[i][1]]

\* values.get(k)
DictGet(d, k) ==
    IF \E i \in 1..Len(d.items) : d.items[i][1] = k
    THEN d.items[CHOOSE i \in 1..Len(d.items) : d.items[i][1] = k][2]
    ELSE None

RECURSIVE Insert(_, _)
Insert(sorted, k) ==
    IF sorted = <<>> THEN <<k>>
    ELSE IF StrLess(k, Head(sorted)) THEN <<k>> \o sorted
    ELSE <<Head(sorted)>> \o Insert(Tail(sorted), k)

RECURSIVE Sorted(_)
\* sorted(keys)
Sorted(keys) == IF keys = <<>> THEN <<>> ELSE Insert(Sorted(Tail(keys)), Head(keys))

\* The keys in insertion order, as a loop over values.keys() would take them.
ExtraKeyOrderUnsorted(values) == DictKeys(values)

\* sorted_keys = sorted(values.keys())
ExtraKeyOrder(values) == Sorted(DictKeys(values))

\* "&".join(result), result holding f"{key}={value}" for each sorted key.
ExtraCanonical(values) ==
    LET keys == ExtraKeyOrder(values)
    IN  Join([i \in 1..Len(keys) |-> Str(keys[i]) \o <<"=">> \o Str(DictGet(values, keys[i]))],
             <<"&">>)

\* _process_extra_hawk_values(values): "" for None, else the md5 of the joined pairs.
ProcessExtraHawkValues(values) ==
    IF values.none THEN <<>> ELSE Md5(ExtraCanonical(values))

\* The colon-joined string that _get_hawk_authentication signs.
HawkPrestr(rriot, url, formdata, params, timestamp, nonce) ==
    Join(<< rriot.u, rriot.s, nonce, Str(IntV(timestamp)), Md5(url),
            ProcessExtraHawkValues(params), ProcessExtraHawkValues(formdata) >>, <<":">>)

\* _get_hawk_authentication(rriot, url, formdata, params) at the given clock and nonce.
GetHawkAuthentication(rriot, url, formdata, params, timestamp, nonce) ==
    LET mac == HmacB64(rriot.h, HawkPrestr(rriot, url, formdata, params, timestamp, nonce))
    IN  <<"Hawk id=\"">> \o rriot.u \o <<"\",s=\"">> \o rriot.s
        \o <<"\",ts=\"">> \o Str(IntV(timestamp)) \o <<"\",nonce=\"">> \o nonce
        \o <<"\",mac=\"">> \o mac \o <<"\"">>
(***************************************************************************)
(* The rate limiters.                                                      *)
(***************************************************************************)
SECOND == 1000
MINUTE == 60000
HOUR   == 3600000
DAY    == 86400000

Rate(limit, interval) == [limit |-> limit, interval |-> interval]

\* A looser login rule list: four a minute.
LoginRatesFourAMinute == <<Rate(1, SECOND), Rate(4, MINUTE), Rate(10, HOUR), Rate(20, DAY)>>

\* RoborockApiClient._LOGIN_RATES
LOGIN_RATES == <<Rate(1, SECOND), Rate(3, MINUTE), Rate(10, HOUR), Rate(20, DAY)>>

\* A looser home-data rule list: sixteen an hour.
HomeDataRatesSixteenAnHour == <<Rate(1, SECOND), Rate(5, MINUTE), Rate(16, HOUR), Rate(40, DAY)>>

\* RoborockApiClient._HOME_DATA_RATES
HOME_DATA_RATES == <<Rate(1, SECOND), Rate(5, MINUTE), Rate(15, HOUR), Rate(40, DAY)>>

\* The rules a Limiter object was built with: _login_limiter = Limiter(_LOGIN_RATES),
\* _home_data_limiter = Limiter(_HOME_DATA_RATES); "two_rules" is the harness limiter
\* built with the first two login rules.
RatesOf(l) ==
    CASE l = "home_data" -> HOME_DATA_RATES
      [] l = "two_rules" -> SubSeq(LOGIN_RATES, 1, 2)
      [] OTHER           -> LOGIN_RATES

\* The admitted acquisitions of limiter object l, oldest first.
Bucket(l) == IF l \in DOMAIN buckets THEN buckets[l] ELSE <<>>

\* The counter of one window: the admitted acquisitions in [ts - interval, ts].
WindowCount(items, interval, ts) ==
    Cardinality({i \in 1..Len(items) : items[i] >= ts - interval /\ items[i] <= ts})

\* A limiter that counts the attempt it refuses.
TryAcquireCounting(rates, items, ts) ==
    [ok    |-> \A k \in 1..Len(rates) : WindowCount(items, rates[k].interval, ts) < rates[k].limit,
     items |-> Append(items, ts)]

\* Limiter.try_acquire(name) at clock ts on the bucket `items`: all-or-nothing over
\* the rules; ok is FALSE where the code gets BucketFullException.
TryAcquire(rates, items, ts) ==
    IF \A k \in 1..Len(rates) : WindowCount(items, rates[k].interval, ts) < rates[k].limit
    THEN [ok |-> TRUE,  items |-> Append(items, ts)]
    ELSE [ok |-> FALSE, items |-> items]

\* buckets with limiter object l holding items.
WithBucket(l, items) == [x \in DOMAIN buckets \cup {l} |-> IF x = l THEN items ELSE buckets[x]]
(***************************************************************************)
(* The REST client.  A task runs one operation of one RoborockApiClient;   *)
(* a coroutine runs without interruption up to the network request it      *)
(* awaits, and resumes with the response.                                  *)
(***************************************************************************)
Clients == {"c1", "c2"}
Tasks   == {"t1", "t2"}

MaxTicks == 1    \* clock steps of the client model

\* self._default_url
DefaultUrl == <<"https://euiot.roborock.com">>
\* The url the getUrlByEmail answer names, and the one a client is constructed with.
ServerUrl  == <<"https://usiot.roborock.com">>

\* Python truthiness of an optional str.
Falsy(v) == v = None \/ v = <<>>

\* The user_data arguments: complete, without rriot, with rriot.r.a missing.
UserDatas == {"full", "no_rriot", "no_a"}

\* user_data.rriot
RriotOf(ud) ==
    [none |-> ud = "no_rriot",
     u    |-> <<"u", "1">>,
     s    |-> <<"s", "1">>,
     h    |-> <<"h", "1">>,
     a    |-> IF ud = "full" THEN <<"https://api-us.roborock.com">> ELSE None]

\* user_data.token
TokenOf(ud) == <<"token">>

HomeIds  == {1}
DeviceId == <<"d", "1">>
SceneId  == IntV(7)
Timezone == <<"Europe/Berlin">>
AddS     == <<"s", "v">>
AddT     == <<"t", "v">>
Nonces   == {<<"n", "1">>}

\* x.strip("/") on a path of "/" and name tokens
RECURSIVE StripLeft(_)
StripLeft(p) == IF p # <<>> /\ Head(p) = "/" THEN StripLeft(Tail(p)) ELSE p

RECURSIVE StripRight(_)
StripRight(p) == IF p # <<>> /\ p[Len(p)] = "/" THEN StripRight(SubSeq(p, 1, Len(p) - 1)) ELSE p

Strip(p) == StripRight(StripLeft(p))

\* The path of _url = "/".join(s.strip("/") for s in [self.base_url, url]).
SentPath(url) == <<"/">> \o Strip(url)

(***************************************************************************)
(* Requests and responses.                                                 *)
(***************************************************************************)
Request(base, method, url, params, data, auth, signed) ==
    [base |-> base, method |-> method, url |-> url, params |-> params, data |-> data,
     auth |-> auth, signed |-> signed]

\* No request in flight.
NoRequest == [base |-> None, method |-> "", url |-> <<>>, params |-> [none |-> TRUE, items |-> <<>>],
              data |-> [none |-> TRUE, items |-> <<>>], auth |-> None,
              signed |-> [by |-> FALSE, ts |-> 0, nonce |-> <<>>]]

\* What a signed request's signature was drawn with.
Unsigned == [by |-> FALSE, ts |-> 0, nonce |-> <<>>]
SignedAt(ts, nonce) == [by |-> TRUE, ts |-> ts, nonce |-> nonce]

\* await resp.json(): fault names the exception the request raised, none is a null
\* body; data and result say what kind of value the key holds.
Response(fault, none, code, msg, error, data, success, result) ==
    [fault |-> fault, none |-> none, code |-> code, msg |-> msg, error |-> error,
     data |-> data, success |-> success, result |-> result]

NoResponse == Response("", TRUE, None, None, None, "missing", FALSE, "missing")

FaultResponse == Response("ClientError", TRUE, None, None, None, "missing", FALSE, "missing")

\* "dict": a dict with the keys read; "partial": a dict without them;
\* "missing": no such key, or null; "list": a list.
DataKinds == {"dict", "partial", "missing", "list"}

\* The bodies of the account endpoints: code 200 with any data, or a failure code.
CodeResponses(codes, errors) ==
    {NoResponse, FaultResponse}
    \cup {Response("", FALSE, IntV(200), <<"o", "k">>, None, d, FALSE, "missing") : d \in DataKinds}
    \cup {Response("", FALSE, IntV(c), <<"b", "a", "d">>, e, "missing", FALSE, "missing") :
            c \in codes, e \in errors}

\* The bodies of the signed endpoints.
SuccessResponses ==
    {NoResponse, FaultResponse}
    \cup {Response("", FALSE, IntV(200), <<"b", "a", "d">>, None, "missing", b, r) :
            b \in BOOLEAN, r \in {"dict", "list", "missing"}}

(***************************************************************************)
(* Tasks.                                                                  *)
(***************************************************************************)
NoResult == [status |-> "none", exc |-> "", text |-> <<>>]

\* at is the clock at the call, req the request in flight, sent the number of requests
\* of the call, resp the last response it got and stage the request that one answered.
IdleTask ==
    [pc |-> "idle", op |-> "none", client |-> "c1", ud |-> "full", home_id |-> None,
     at |-> 0, after |-> "none", req |-> NoRequest, sent |-> 0, res |-> NoResult,
     resp |-> NoResponse, stage |-> "none"]

\* The call is over: what it held while running is gone.
Ended(task) ==
    [task EXCEPT !.pc = "idle", !.ud = "full", !.home_id = None, !.after = "none",
                 !.req = NoRequest]

\* A task entering operation op of client c.
Enter(op, c, ud, home_id) ==
    [IdleTask EXCEPT !.op = op, !.client = c, !.ud = ud, !.home_id = home_id, !.pc = "run",
                     !.at = now]

\* raise exc(text)
Fail(task, exc, text) ==
    [Ended(task) EXCEPT !.res = [status |-> "error", exc |-> exc, text |-> text]]

\* return value
Return(task, value) ==
    [Ended(task) EXCEPT !.res = [status |-> "ok", exc |-> "", text |-> value]]

\* PreparedRequest(base, ...).request(...): the join of base and url strips both, then
\* the request goes out and the coroutine waits at pc.
Send(task, pc, req) ==
    IF req.base = None
    THEN Fail(task, "AttributeError", <<"'NoneType' object has no attribute 'strip'">>)
    ELSE [task EXCEPT !.pc = pc, !.req = req, !.sent = @ + 1]
(***************************************************************************)
(* The requests of the operations.                                         *)
(***************************************************************************)
\* A path literal "/a/b/c".
Slash(names) == <<"/">> \o Join([i \in 1..Len(names) |-> <<names[i]>>], <<"/">>)

Pair(k, v) == <<k, v>>

\* The request of _get_base_url.
UrlByEmailRequest ==
    Request(DefaultUrl, "post", Slash(<<"api", "v1", "getUrlByEmail">>),
            Dict(<<Pair(<<"email">>, <<"user">>), Pair(<<"needtwostepauth">>, <<"false">>)>>),
            NoDict, None, Unsigned)

\* The request of _get_home_id.
HomeDetailRequest(base, ud) ==
    Request(base, "get", Slash(<<"api", "v1", "getHomeDetail">>), NoDict, NoDict,
            TokenOf(ud), Unsigned)

\* A request to the signed endpoint: signed_url and the two dicts go to
\* _get_hawk_authentication, url and the other two dicts to PreparedRequest.request.
SignedRequest(rriot, method, signed_url, signed_form, signed_params, url, params, data, nonce) ==
    Request(rriot.a, method, url, params, data,
            GetHawkAuthentication(rriot, signed_url, signed_form, signed_params,
                                  now \div 1000, nonce),
            SignedAt(now \div 1000, nonce))

HomesPath(prefix, home_id) == Slash(prefix) \o <<"/">> \o Str(home_id)

\* The last request of each operation; base is the client's base url.
MainRequest(task, base, nonce) ==
    LET rriot == RriotOf(task.ud)
        hid   == task.home_id
        Account(method, names, auth) ==
            Request(base, method, Slash(names), NoDict, NoDict, auth, Unsigned)
        Get(url) == SignedRequest(rriot, "get", url, NoDict, NoDict, url, NoDict, NoDict, nonce)
    IN  CASE task.op = "request_code" ->
               [Account("post", <<"api", "v1", "sendEmailCode">>, None) EXCEPT !.params =
                   Dict(<<Pair(<<"username">>, <<"user">>), Pair(<<"type">>, <<"auth">>)>>)]
          [] task.op = "pass_login" ->
               [Account("post", <<"api", "v1", "login">>, None) EXCEPT !.params =
                   Dict(<<Pair(<<"username">>, <<"user">>), Pair(<<"password">>, <<"pw">>),
                          Pair(<<"needtwostepauth">>, <<"false">>)>>)]
          [] task.op = "code_login" ->
               [Account("post", <<"api", "v1", "loginWithCode">>, None) EXCEPT !.params =
                   Dict(<<Pair(<<"username">>, <<"user">>), Pair(<<"verifycode">>, <<"code">>),
                          Pair(<<"verifycodetype">>, <<"AUTH_EMAIL_CODE">>)>>)]
          [] task.op = "get_products" ->
               Account("get", <<"api", "v4", "product">>, TokenOf(task.ud))
          [] task.op = "download_code" ->
               Account("post", <<"api", "v1", "appplugin">>, TokenOf(task.ud))
          [] task.op = "download_category_code" ->
               Request(base, "get", <<"api", "/", "v1", "/", "plugins?apiLevel=99999&type=2">>,
                       NoDict, NoDict, TokenOf(task.ud), Unsigned)
          [] task.op = "get_home_data" -> Get(HomesPath(<<"user", "homes">>, hid))
          [] task.op = "get_home_data_v2" -> Get(HomesPath(<<"v2", "user", "homes">>, hid))
          [] task.op = "get_home_data_v3" -> Get(HomesPath(<<"v3", "user", "homes">>, hid))
          [] task.op = "get_rooms" ->
               SignedRequest(rriot, "get", HomesPath(<<"v2", "user", "homes">>, hid),
                             NoDict, NoDict,
                             HomesPath(<<"user", "homes">>, hid) \o <<"/", "rooms">> \o Str(hid),
                             NoDict, NoDict, nonce)
          [] task.op = "get_scenes" ->
               Get(Slash(<<"user", "scene", "device">>) \o <<"/">> \o Str(DeviceId))
          [] task.op = "execute_scene" ->
               LET url == Slash(<<"user", "scene">>) \o <<"/">> \o Str(SceneId) \o <<"/", "execute">>
               IN  SignedRequest(rriot, "POST", url, NoDict, NoDict, url, NoDict, NoDict, nonce)
          [] task.op = "nc_prepare" ->
               LET form == Dict(<<Pair(<<"h", "i", "d">>, hid),
                                  Pair(<<"t", "z", "i", "d">>, Timezone)>>)
               IN  SignedRequest(rriot, "post", Slash(<<"nc", "prepare">>), form, NoDict,
                                 Slash(<<"nc", "prepare">>), NoDict, form, nonce)
          [] OTHER -> \* add_device
               LET query == Dict(<<Pair(<<"s">>, AddS), Pair(<<"t">>, AddT)>>)
               IN  SignedRequest(rriot, "GET", Slash(<<"user", "devices", "newadd">>), NoDict,
                                 query, Slash(<<"user", "devices", "newadd">>), query, NoDict,
                                 nonce)

\* What follows a returned base url: _get_home_id's request, or the operation's own.
Continue(task, base, nonce) ==
    IF task.after = "home_id"
    THEN Send(task, "await_home_id", HomeDetailRequest(base, task.ud))
    ELSE Send(task, "await_main", MainRequest(task, base, nonce))

\* await self._get_base_url(), up to its request when base_url is not set.
EnterBaseUrl(task, after, nonce) ==
    LET t2 == [task EXCEPT !.after = after]
    IN  IF Falsy(base_url[task.client])
        THEN Send(t2, "await_base_url", UrlByEmailRequest)
        ELSE Continue(t2, base_url[task.client], nonce)

\* The signed request of an operation that needs no further lookup.
SendSigned(task, nonce) == Send(task, "await_main", MainRequest(task, RriotOf(task.ud).a, nonce))

GenericText(resp) == Str(resp.msg) \o <<" - response code: ">> \o Str(resp.code)

MissingA == <<"Missing field 'a' in rriot reference">>
(***************************************************************************)
(* The operations, each from its entry to the first request it awaits.     *)
(***************************************************************************)
\* self._login_limiter: the Limiter object of the class RoborockApiClient.
LoginLimiterPerInstance(c) == IF c = "c1" THEN "login@c1" ELSE "login@c2"

LoginLimiter(c) == "login"

\* self._home_data_limiter
HomeDataLimiterIsLogin(c) == "login"

HomeDataLimiter(c) == "home_data"

\* limiter.try_acquire(...) at the current clock.
Acquire(l) == TryAcquire(RatesOf(l), Bucket(l), now)

RateLimitText(what) == <<"Reached maximum requests for ", what, ". Please try again later.">>

\* The operation runs on although the limiter refused.
AcquireOrRaiseSwallowed(acq, entered, what, rest) == rest

\* try: try_acquire  except BucketFullException: raise RoborockRateLimit;  then the rest.
AcquireOrRaise(acq, entered, what, rest) ==
    IF acq.ok THEN rest ELSE Fail(entered, "RoborockRateLimit", RateLimitText(what))

\* user_data.rriot is None or .r is None or .u is None or .r.a is None
MissingCritical(ud) == RriotOf(ud).none \/ RriotOf(ud).a = None

Idle(t) == tasks[t].pc = "idle"

Start(t, task) ==
    /\ Idle(t)
    /\ tasks' = [tasks EXCEPT ![t] = task]
    /\ UNCHANGED <<now, base_url, lim_last, hawk, extra, http, capture, mqtt, disp>>

\* The acquisition is given back when the call fails before its first request.
StartLimitedRefunding(t, l, what, entered, rest) ==
    /\ Start(t, AcquireOrRaise(Acquire(l), entered, what, rest))
    /\ buckets' = IF rest.pc = "idle" THEN buckets ELSE WithBucket(l, Acquire(l).items)

\* An operation that starts by drawing from limiter l.
StartLimited(t, l, what, entered, rest) ==
    /\ Start(t, AcquireOrRaise(Acquire(l), entered, what, rest))
    /\ buckets' = WithBucket(l, Acquire(l).items)

StartFree(t, task) == Start(t, task) /\ UNCHANGED buckets

request_code(t, c) ==
    \E nonce \in Nonces :
        LET entered == Enter("request_code", c, "full", None)
        IN  StartLimited(t, LoginLimiter(c), "login", entered,
                         EnterBaseUrl(entered, "main", nonce))

pass_login(t, c) ==
    \E nonce \in Nonces :
        LET entered == Enter("pass_login", c, "full", None)
        IN  StartLimited(t, LoginLimiter(c), "login", entered,
                         EnterBaseUrl(entered, "main", nonce))

code_login(t, c) ==
    \E nonce \in Nonces :
        StartFree(t, EnterBaseUrl(Enter("code_login", c, "full", None), "main", nonce))

\* get_home_data and get_home_data_v2 differ in the path alone.
HomeDataChecked(t, c, ud, op) ==
    \E nonce \in Nonces :
        LET entered == Enter(op, c, ud, None)
        IN  StartLimited(t, HomeDataLimiter(c), "home data", entered,
                         IF RriotOf(ud).none
                         THEN Fail(entered, "RoborockException", <<"rriot is none">>)
                         ELSE EnterBaseUrl(entered, "home_id", nonce))

get_home_data(t, c, ud) == HomeDataChecked(t, c, ud, "get_home_data")

get_home_data_v2(t, c, ud) == HomeDataChecked(t, c, ud, "get_home_data_v2")

get_home_data_v3(t, c, ud) ==
    \E nonce \in Nonces :
        LET entered == Enter("get_home_data_v3", c, ud, None)
        IN  StartLimited(t, HomeDataLimiter(c), "home data", entered,
                         EnterBaseUrl(entered, "home_id", nonce))

get_rooms(t, c, ud, home_id) ==
    \E nonce \in Nonces :
        LET entered == Enter("get_rooms", c, ud, home_id)
        IN  StartFree(t,
                IF RriotOf(ud).none THEN Fail(entered, "RoborockException", <<"rriot is none">>)
                ELSE IF home_id = None THEN EnterBaseUrl(entered, "home_id", nonce)
                ELSE IF RriotOf(ud).a = None THEN Fail(entered, "RoborockException", MissingA)
                ELSE SendSigned(entered, nonce))

\* get_scenes and execute_scene check the same two fields and send one signed request.
SceneCall(t, c, ud, op) ==
    \E nonce \in Nonces :
        LET entered == Enter(op, c, ud, None)
        IN  StartFree(t,
                IF RriotOf(ud).none THEN Fail(entered, "RoborockException", <<"rriot is none">>)
                ELSE IF RriotOf(ud).a = None THEN Fail(entered, "RoborockException", MissingA)
                ELSE SendSigned(entered, nonce))

get_scenes(t, c, ud) == SceneCall(t, c, ud, "get_scenes")

execute_scene(t, c, ud) == SceneCall(t, c, ud, "execute_scene")

nc_prepare(t, c, ud) ==
    \E nonce \in Nonces :
        LET entered == Enter("nc_prepare", c, ud, None)
        IN  StartFree(t,
                IF MissingCritical(ud)
                THEN Fail(entered, "RoborockException",
                          <<"Your userdata is missing critical attributes.">>)
                ELSE EnterBaseUrl(entered, "home_id", nonce))

add_device(t, c, ud) ==
    \E nonce \in Nonces :
        LET entered == Enter("add_device", c, ud, None)
        IN  StartFree(t,
                IF MissingCritical(ud)
                THEN Fail(entered, "RoborockException",
                          <<"Your userdata is missing critical attributes.">>)
                ELSE SendSigned(entered, nonce))

\* get_products, download_code and download_category_code start alike.
AccountCall(t, c, op) ==
    \E nonce \in Nonces :
        StartFree(t, EnterBaseUrl(Enter(op, c, "full", None), "main", nonce))

get_products(t, c) == AccountCall(t, c, "get_products")

download_code(t, c) == AccountCall(t, c, "download_code")

download_category_code(t, c) == AccountCall(t, c, "download_category_code")
(***************************************************************************)
(* The operations from a response on.                                      *)
(***************************************************************************)
Code(n) == IntV(n)

\* The rest of _get_base_url; set says whether self.base_url was assigned.
BaseUrlResume(task0, resp, nonce) ==
    LET task == [task0 EXCEPT !.resp = resp, !.stage = "base_url"]
        Raise(exc, text) == [task |-> Fail(task, exc, text), set |-> FALSE, url |-> None]
    IN  IF resp.fault # "" THEN Raise(resp.fault, <<>>)
        ELSE IF resp.none
        THEN Raise("RoborockUrlException", <<"get url by email returned None">>)
        ELSE IF resp.code # Code(200)
        THEN CASE resp.code = Code(2003) ->
                    Raise("RoborockInvalidEmail", <<"Your email was incorrectly formatted.">>)
               [] resp.code = Code(1001) ->
                    Raise("RoborockMissingParameters",
                          <<"You are missing parameters for this request, are you sure you entered your username?">>)
               [] resp.code = Code(9002) ->
                    Raise("RoborockTooManyRequest",
                          <<"Please temporarily disable making requests and try again later.">>)
               [] OTHER ->
                    Raise("RoborockUrlException",
                          <<"error code: ">> \o Str(resp.code) \o <<" msg: ">> \o Str(resp.error))
        ELSE IF resp.data = "missing"
        THEN Raise("RoborockUrlException", <<"response does not have 'data'">>)
        ELSE IF resp.data = "list"
        THEN Raise("AttributeError", <<"'list' object has no attribute 'get'">>)
        ELSE LET url == IF resp.data = "dict" THEN ServerUrl ELSE None
             IN  [task |-> Continue(task, url, nonce), set |-> TRUE, url |-> url]

\* What an operation does with the home id _get_home_id returned.
AfterHomeId(task, nonce) ==
    LET rriot == RriotOf(task.ud)
    IN  IF rriot.none
        THEN Fail(task, "AttributeError", <<"'NoneType' object has no attribute 'r'">>)
        ELSE IF rriot.a = None
        THEN Fail(task, "RoborockException", MissingA)
        ELSE SendSigned(task, nonce)

\* The rest of _get_home_id, then of the operation that called it.
HomeIdResume(task0, resp, home_id, nonce) ==
    LET task == [task0 EXCEPT !.resp = resp, !.stage = "home_id"]
    IN  IF resp.fault # "" THEN Fail(task, resp.fault, <<>>)
        ELSE IF resp.none THEN Fail(task, "RoborockException", <<"home_id_response is None">>)
        ELSE IF resp.code # Code(200)
        THEN IF resp.code = Code(2010)
             THEN Fail(task, "RoborockInvalidCredentials",
                       <<"Invalid credentials (">> \o Str(resp.msg)
                       \o <<") - check your login and try again.">>)
             ELSE Fail(task, "RoborockException", GenericText(resp))
        ELSE CASE resp.data = "dict" -> AfterHomeId([task EXCEPT !.home_id = IntV(home_id)], nonce)
               [] resp.data = "partial" -> Fail(task, "KeyError", <<"'rrHomeId'">>)
               [] resp.data = "missing" -> Fail(task, "KeyError", <<"'data'">>)
               [] OTHER -> Fail(task, "TypeError", <<"list indices must be integers or slices, not str">>)

\* pass_login and code_login after the code check.
UserDataResult(task, resp) ==
    IF resp.data \in {"dict", "partial"}
    THEN Return(task, <<"UserData">>)
    ELSE Fail(task, "RoborockException", <<"Got unexpected data type for user_data">>)

\* The rest of an operation after its own request.
MainResume(task0, resp) ==
    LET task == [task0 EXCEPT !.resp = resp, !.stage = "main"]
        op   == task.op
        Generic == Fail(task, "RoborockException", GenericText(resp))
        NoneFault == Fail(task, "AttributeError", <<"'NoneType' object has no attribute 'get'">>)
        Refused == Fail(task, "RoborockException", <<"#response">>)
    IN  IF resp.fault # "" THEN Fail(task, resp.fault, <<>>)
        ELSE CASE op = "request_code" ->
                    IF resp.none
                    THEN Fail(task, "RoborockException",
                              <<"Failed to get a response from send email code">>)
                    ELSE IF resp.code = Code(200) THEN Return(task, None)
                    ELSE IF resp.code = Code(2008)
                    THEN Fail(task, "RoborockAccountDoesNotExist",
                              <<"Account does not exist - check your login and try again.">>)
                    ELSE IF resp.code = Code(9002)
                    THEN Fail(task, "RoborockTooFrequentCodeRequests",
                              <<"You have attempted to request too many codes. Try again later">>)
                    ELSE Generic
               [] op = "pass_login" ->
                    IF resp.none THEN Fail(task, "RoborockException", <<"Login response is none">>)
                    ELSE IF resp.code # Code(200) THEN Generic
                    ELSE UserDataResult(task, resp)
               [] op = "code_login" ->
                    IF resp.none
                    THEN Fail(task, "RoborockException", <<"Login request response is None">>)
                    ELSE IF resp.code = Code(200) THEN UserDataResult(task, resp)
                    ELSE IF resp.code = Code(2018)
                    THEN Fail(task, "RoborockInvalidCode",
                              <<"Invalid code - check your code and try again.">>)
                    ELSE IF resp.code = Code(3009)
                    THEN Fail(task, "RoborockNoUserAgreement",
                              <<"You must accept the user agreement in the Roborock app to continue.">>)
                    ELSE IF resp.code = Code(3006)
                    THEN Fail(task, "RoborockInvalidUserAgreement",
                              <<"User agreement must be accepted again - or you are attempting to use the Mi Home app account.">>)
                    ELSE Generic
               [] op = "get_products" ->
                    IF resp.none THEN Fail(task, "RoborockException", <<"home_id_response is None">>)
                    ELSE IF resp.code # Code(200) THEN Generic
                    ELSE IF resp.data \in {"dict", "partial"} THEN Return(task, <<"ProductResponse">>)
                    ELSE Fail(task, "RoborockException", <<"product result was an unexpected type">>)
               [] op = "download_code" ->
                    \* response["data"][0]["url"]
                    IF resp.none
                    THEN Fail(task, "TypeError", <<"'NoneType' object is not subscriptable">>)
                    ELSE IF resp.data = "list" THEN Return(task, <<"url">>)
                    ELSE Fail(task, "KeyError", <<"data">>)
               [] op = "download_category_code" ->
                    \* response["data"]["categoryPluginList"]
                    IF resp.none
                    THEN Fail(task, "TypeError", <<"'NoneType' object is not subscriptable">>)
                    ELSE IF resp.data = "dict" THEN Return(task, <<"dict">>)
                    ELSE IF resp.data = "list"
                    THEN Fail(task, "TypeError", <<"list indices must be integers or slices, not str">>)
                    ELSE Fail(task, "KeyError", <<"data">>)
               [] op \in {"get_home_data", "get_home_data_v2", "get_home_data_v3"} ->
                    IF resp.none THEN NoneFault
                    ELSE IF ~resp.success THEN Refused
                    ELSE IF resp.result = "dict" THEN Return(task, <<"HomeData">>)
                    ELSE Fail(task, "RoborockException",
                              <<"home_response result was an unexpected type">>)
               [] op = "get_rooms" ->
                    IF resp.none THEN NoneFault
                    ELSE IF ~resp.success THEN Refused
                    ELSE IF resp.result = "list" THEN Return(task, <<"list[HomeDataRoom]">>)
                    ELSE Fail(task, "RoborockException",
                              <<"home_response result was an unexpected type">>)
               [] op = "get_scenes" ->
                    IF resp.none THEN NoneFault
                    ELSE IF ~resp.success THEN Refused
                    ELSE IF resp.result = "list" THEN Return(task, <<"list[HomeDataScene]">>)
                    ELSE Fail(task, "RoborockException",
                              <<"scene_response result was an unexpected type">>)
               [] op = "execute_scene" ->
                    IF resp.none THEN NoneFault
                    ELSE IF ~resp.success THEN Refused
                    ELSE Return(task, None)
               [] OTHER -> \* nc_prepare, add_device
                    IF resp.none
                    THEN Fail(task, "RoborockException",
                              IF op = "nc_prepare" THEN <<"prepare_response is None">>
                                                   ELSE <<"add_device is None">>)
                    ELSE IF ~resp.success THEN Generic
                    ELSE IF resp.result = "missing" THEN Fail(task, "KeyError", <<"'result'">>)
                    ELSE Return(task, <<"result">>)

\* The codes each endpoint answers with here: its mapped ones and two it does not map.
UnmappedCodes == {500, 4040}

BaseUrlResponses == CodeResponses({2003, 1001, 9002} \cup UnmappedCodes, {None, <<"e", "r", "r">>})

HomeIdResponses == CodeResponses({2010} \cup UnmappedCodes, {None})

MainResponses(op) ==
    CASE op = "request_code" -> CodeResponses({2008, 9002} \cup UnmappedCodes, {None})
      [] op = "code_login"   -> CodeResponses({2018, 3009, 3006} \cup UnmappedCodes, {None})
      [] op \in {"pass_login", "get_products", "download_code", "download_category_code"} ->
             CodeResponses(UnmappedCodes, {None})
      [] OTHER -> SuccessResponses

\* The getUrlByEmail response arrives.
BaseUrlResponse(t, resp) ==
    /\ tasks[t].pc = "await_base_url"
    /\ resp \in BaseUrlResponses
    /\ \E nonce \in Nonces :
         LET out == BaseUrlResume(tasks[t], resp, nonce)
         IN  /\ tasks' = [tasks EXCEPT ![t] = out.task]
             /\ base_url' = IF out.set THEN [base_url EXCEPT ![tasks[t].client] = out.url]
                                       ELSE base_url
    /\ UNCHANGED <<now, buckets, lim_last, hawk, extra, http, capture, mqtt, disp>>

\* The getHomeDetail response arrives.
HomeIdResponse(t, resp, home_id) ==
    /\ tasks[t].pc = "await_home_id"
    /\ resp \in HomeIdResponses
    /\ \E nonce \in Nonces : tasks' = [tasks EXCEPT ![t] = HomeIdResume(tasks[t], resp, home_id, nonce)]
    /\ UNCHANGED <<now, buckets, base_url, lim_last, hawk, extra, http, capture, mqtt, disp>>

\* The response to the operation's own request arrives.
MainResponse(t, resp) ==
    /\ tasks[t].pc = "await_main"
    /\ resp \in MainResponses(tasks[t].op)
    /\ tasks' = [tasks EXCEPT ![t] = MainResume(tasks[t], resp)]
    /\ UNCHANGED <<now, buckets, base_url, lim_last, hawk, extra, http, capture, mqtt, disp>>

\* Time passes.
ClockSteps == {SECOND + 1}

Tick(d) ==
    /\ now + d <= MaxTicks * (SECOND + 1)
    /\ now' = now + d
    /\ UNCHANGED <<buckets, base_url, tasks, lim_last, hawk, extra, http, capture, mqtt, disp>>

(***************************************************************************)
(* The client model: both limiters empty, no task running.                 *)
(***************************************************************************)
NoAttempt == [limiter |-> "none", tried |-> FALSE, ok |-> TRUE, at |-> 0, steps |-> 0]

NoHawk == [rriot |-> RriotOf("full"), url |-> <<>>, formdata |-> NoDict, params |-> NoDict,
           ts |-> 0, nonce |-> <<>>, out |-> None]

NoExtra == [values |-> NoDict, out |-> None]

\* No request, no capture, no session command, no dispatcher call.
NoHttp    == [pc |-> "off", given |-> "none", close_session |-> FALSE, method |-> "",
              out |-> "none", created |-> 0, closed |-> 0, calls |-> 0]
NoCapture == [pc |-> "off", buffer |-> <<>>, sent |-> [request |-> 0, response |-> 0],
              decoded |-> [request |-> 0, response |-> 0], fed |-> <<>>, dir |-> "",
              expect |-> 0, raised |-> FALSE, messages |-> 0, packets |-> 0]
NoMqtt    == [pc |-> "off", devices |-> 0, cached |-> FALSE, session |-> "none", sessions |-> 0,
              connected |-> FALSE, subscribed |-> <<>>, unsubs |-> <<>>, unsubscribed |-> <<>>,
              late |-> FALSE, received |-> 0, exc |-> ""]
NoDisp    == [pc |-> "off", sink_on |-> FALSE, next |-> 1, calls |-> 0,
              pending |-> {}, wire |-> {}, sink |-> {}, done |-> <<>>,
              call |-> [c \in {"a", "b"} |->
                          [pc |-> "idle", id |-> 0, serial |-> 0, issued |-> 0, timeout |-> 0,
                           result |-> [id |-> 0, serial |-> 0]]]]

HarnessIdle ==
    /\ lim_last = NoAttempt /\ hawk = NoHawk /\ extra = NoExtra
    /\ http = NoHttp /\ capture = NoCapture /\ mqtt = NoMqtt /\ disp = NoDisp

\* Nothing has run yet; c1 was constructed with or without a base url.
Init ==
    /\ now = 0
    /\ buckets = [l \in {"login", "home_data"} |-> <<>>]
    /\ \E b \in {None, ServerUrl} : base_url = [c \in Clients |-> IF c = "c1" THEN b ELSE None]
    /\ tasks = [t \in Tasks |-> IdleTask]
    /\ HarnessIdle

HomeIdArgs == {None} \cup {IntV(i) : i \in HomeIds}

\* One task calls the operations of one client, one after the other.
Next ==
    \/ request_code("t1", "c1")
    \/ pass_login("t1", "c1")
    \/ code_login("t1", "c1")
    \/ \E ud \in UserDatas : get_home_data("t1", "c1", ud)
    \/ \E ud \in UserDatas : get_home_data_v2("t1", "c1", ud)
    \/ \E ud \in UserDatas : get_home_data_v3("t1", "c1", ud)
    \/ \E ud \in UserDatas, h \in HomeIdArgs : get_rooms("t1", "c1", ud, h)
    \/ \E ud \in UserDatas : get_scenes("t1", "c1", ud)
    \/ \E ud \in UserDatas : execute_scene("t1", "c1", ud)
    \/ \E ud \in UserDatas : nc_prepare("t1", "c1", ud)
    \/ \E ud \in UserDatas : add_device("t1", "c1", ud)
    \/ get_products("t1", "c1")
    \/ download_code("t1", "c1")
    \/ download_category_code("t1", "c1")
    \/ \E resp \in BaseUrlResponses : BaseUrlResponse("t1", resp)
    \/ \E resp \in HomeIdResponses, h \in HomeIds : HomeIdResponse("t1", resp, h)
    \/ \E resp \in MainResponses(tasks["t1"].op) : MainResponse("t1", resp)
    \/ \E d \in ClockSteps : Tick(d)

Spec == Init /\ [][Next]_vars
(***************************************************************************)
(* Two tasks, on the same client or on two, run the login operations and   *)
(* interleave at every request they await.                                 *)
(***************************************************************************)
\* The answers the concurrent tasks get: none, a success, an unmapped code.
ConcResponses ==
    {NoResponse,
     Response("", FALSE, IntV(200), <<"o", "k">>, None, "dict", FALSE, "missing")}
    \cup {Response("", FALSE, IntV(500), <<"b", "a", "d">>, None, "missing", FALSE, "missing")}

ConcInit ==
    /\ now = 0
    /\ buckets = [l \in {"login", "home_data"} |-> <<>>]
    /\ base_url \in [Clients -> {None, ServerUrl}]
    /\ tasks = [t \in Tasks |-> IdleTask]
    /\ HarnessIdle

ConcNext ==
    \/ \E t \in Tasks, c \in Clients : request_code(t, c)
    \/ \E t \in Tasks, c \in Clients : pass_login(t, c)
    \/ \E t \in Tasks, c \in Clients : code_login(t, c)
    \/ \E t \in Tasks, resp \in ConcResponses : BaseUrlResponse(t, resp)
    \/ \E t \in Tasks, resp \in ConcResponses : MainResponse(t, resp)
    \/ \E d \in ClockSteps : Tick(d)

SpecConc == ConcInit /\ [][ConcNext]_vars

(***************************************************************************)
(* The limiter harness: try_acquire alone, on a bucket that earlier calls  *)
(* have filled, at clock steps around each window length.                  *)
(***************************************************************************)
HarnessLimiters == {"login", "home_data", "two_rules"}

RECURSIVE ScheduleAt(_, _, _)
\* The time of call number i (from 0) of a caller that fills every window of the first
\* k rules and then waits until it has passed.
ScheduleAt(rates, k, i) ==
    IF k = 0 THEN 0
    ELSE (i \div rates[k].limit) * (rates[k].interval + 1)
         + ScheduleAt(rates, k - 1, i % rates[k].limit)

CallTime(rates, i) == ScheduleAt(rates, Len(rates), i)

\* The calls of that caller up to call n, and whether try_acquire admits each of them.
History(rates, n) == [i \in 1..n |-> CallTime(rates, i - 1)]

Admitted(rates, h) ==
    \A i \in 1..Len(h) : TryAcquire(rates, SubSeq(h, 1, i - 1), h[i]).ok

LimInit ==
    /\ \E l \in HarnessLimiters :
         \E n \in 0..(RatesOf(l)[Len(RatesOf(l))].limit + 1) :
            /\ Admitted(RatesOf(l), History(RatesOf(l), n))
            /\ now = IF n = 0 THEN 0 ELSE CallTime(RatesOf(l), n - 1)
            /\ buckets = [x \in {"login", "home_data", l} |->
                             IF x = l THEN History(RatesOf(l), n) ELSE <<>>]
            /\ lim_last = [limiter |-> l, tried |-> FALSE, ok |-> TRUE, at |-> 0, steps |-> 0]
    /\ base_url = [c \in Clients |-> None]
    /\ tasks = [t \in Tasks |-> IdleTask]
    /\ hawk = NoHawk
    /\ extra = NoExtra
    /\ http = NoHttp /\ capture = NoCapture /\ mqtt = NoMqtt /\ disp = NoDisp

\* One more try_acquire on the harness limiter.
LimAcquire ==
    /\ lim_last.steps < MaxLimSteps
    /\ buckets' = WithBucket(lim_last.limiter, Acquire(lim_last.limiter).items)
    /\ lim_last' = [lim_last EXCEPT !.tried = TRUE, !.ok = Acquire(lim_last.limiter).ok,
                                    !.at = now, !.steps = @ + 1]
    /\ UNCHANGED <<now, base_url, tasks, hawk, extra, http, capture, mqtt, disp>>

LimClockSteps == {SECOND, SECOND + 1, MINUTE + 1, HOUR + 1, DAY + 1}

LimTick(d) ==
    /\ lim_last.steps < MaxLimSteps
    /\ now' = now + d
    /\ lim_last' = [lim_last EXCEPT !.steps = @ + 1]
    /\ UNCHANGED <<buckets, base_url, tasks, hawk, extra, http, capture, mqtt, disp>>

LimNext ==
    \/ LimAcquire
    \/ \E d \in LimClockSteps : LimTick(d)

SpecLimiter == LimInit /\ [][LimNext]_vars

(***************************************************************************)
(* The signer harness: the two functions on drawn inputs.                  *)
(***************************************************************************)
SignKeys == {<<"a">>, <<"b">>, <<"a", "=">>}
SignVals == {<<>>, <<"=">>, <<"&", "b", "=">>}

\* The dicts of n entries over these keys and values, in every insertion order.
DictsOfLen(n) ==
    {Dict(p) : p \in {q \in [1..n -> SignKeys \X SignVals] :
                        \A i, j \in 1..n : i # j => q[i][1] # q[j][1]}}

SignDicts(n) == {NoDict} \cup UNION {DictsOfLen(k) : k \in 0..n}

SignRriots == {RriotOf("full"), [RriotOf("full") EXCEPT !.h = <<"h", "2">>]}

SignUrls == {Slash(<<"nc", "prepare">>), Slash(<<"user", "devices", "newadd">>)}

\* Everything _get_hawk_authentication reads, clock and nonce fixed.
SignInputs ==
    [rriot : SignRriots, url : SignUrls, formdata : SignDicts(1),
     params : SignDicts(MaxParams), ts : {0}, nonce : Nonces, out : {None}]

SignInit ==
    /\ hawk \in SignInputs
    /\ extra = [values |-> hawk.params, out |-> None]
    /\ now = 0
    /\ buckets = [l \in {"login", "home_data"} |-> <<>>]
    /\ base_url = [c \in Clients |-> None]
    /\ tasks = [t \in Tasks |-> IdleTask]
    /\ lim_last = NoAttempt
    /\ http = NoHttp /\ capture = NoCapture /\ mqtt = NoMqtt /\ disp = NoDisp

HawkOf(in) == GetHawkAuthentication(in.rriot, in.url, in.formdata, in.params, in.ts, in.nonce)

\* _get_hawk_authentication runs on the drawn inputs.
SignRequestStep ==
    /\ hawk.out = None
    /\ hawk' = [hawk EXCEPT !.out = HawkOf(hawk)]
    /\ UNCHANGED <<now, buckets, base_url, tasks, lim_last, extra, http, capture, mqtt, disp>>

\* _process_extra_hawk_values runs on the drawn query parameters.
ProcessExtraStep ==
    /\ extra.out = None
    /\ extra' = [extra EXCEPT !.out = ProcessExtraHawkValues(extra.values)]
    /\ UNCHANGED <<now, buckets, base_url, tasks, lim_last, hawk, http, capture, mqtt, disp>>

SignNext == SignRequestStep \/ ProcessExtraStep

SpecSign == SignInit /\ [][SignNext]_vars

\* Nothing has run yet: the clients are new, the limiters empty, no request, capture,
\* broker session or device session exists.
RestInit ==
    /\ now = 0
    /\ buckets = [l \in {"login", "home_data"} |-> <<>>]
    /\ base_url = [c \in Clients |-> None]
    /\ tasks = [t \in Tasks |-> IdleTask]
    /\ HarnessIdle

(***************************************************************************)
(* PreparedRequest.request alone: the HTTP session it uses, on every way   *)
(* out of the request.  given is the session the PreparedRequest was built *)
(* with ("none" for None), created and closed count the sessions that      *)
(* request made and closed.                                                *)
(***************************************************************************)
MaxRequests == 2    \* requests made one after the other

\* The request closes whatever session it used.
CloseSessionAlways(given) == TRUE

\* close_session = self.session is None
CloseSession(given) == given = "none"

\* PreparedRequest(base_url, session) is built and request() runs up to
\* session.request(...): the session is the given one, or a new ClientSession.
RequestEnter(given, method) ==
    /\ http.pc \in {"off", "done"}
    /\ http.calls < MaxRequests
    /\ http.pc = "done" => given = http.given
    /\ http' = [http EXCEPT !.pc = "await_request", !.given = given, !.method = method,
                            !.close_session = CloseSession(given), !.out = "none",
                            !.created = IF given = "none" THEN @ + 1 ELSE @,
                            !.calls = @ + 1]
    /\ UNCHANGED <<now, buckets, base_url, tasks, lim_last, hawk, extra, capture, mqtt, disp>>

\* return await resp.json()
RequestReturns ==
    /\ http.pc = "await_request"
    /\ http' = [http EXCEPT !.pc = "finally", !.out = "return"]
    /\ UNCHANGED <<now, buckets, base_url, tasks, lim_last, hawk, extra, capture, mqtt, disp>>

\* resp.json() raises ContentTypeError: the except branch reads the body again.
RequestContentTypeError ==
    /\ http.pc = "await_request"
    /\ http' = [http EXCEPT !.pc = "except"]
    /\ UNCHANGED <<now, buckets, base_url, tasks, lim_last, hawk, extra, capture, mqtt, disp>>

\* The except branch: resp.json(content_type=None), whose ContentTypeError is logged,
\* and resp.read(); then raise err, unless one of the two raised something else.
RequestExcept(out) ==
    /\ http.pc = "except"
    /\ out \in {"ContentTypeError", "OtherError"}
    /\ http' = [http EXCEPT !.pc = "finally", !.out = out]
    /\ UNCHANGED <<now, buckets, base_url, tasks, lim_last, hawk, extra, capture, mqtt, disp>>

\* session.request or resp.json() raises anything else (a ClientError, a timeout).
RequestOtherError ==
    /\ http.pc = "await_request"
    /\ http' = [http EXCEPT !.pc = "finally", !.out = "OtherError"]
    /\ UNCHANGED <<now, buckets, base_url, tasks, lim_last, hawk, extra, capture, mqtt, disp>>

\* finally: if close_session: await session.close()
RequestFinally ==
    /\ http.pc = "finally"
    /\ http' = [http EXCEPT !.pc = "done",
                            !.closed = IF http.close_session /\ http.given = "none" THEN @ + 1
                                       ELSE @,
                            !.given = IF http.close_session /\ http.given # "none" THEN "closed"
                                      ELSE @]
    /\ UNCHANGED <<now, buckets, base_url, tasks, lim_last, hawk, extra, capture, mqtt, disp>>

RequestNext ==
    \/ \E given \in {"none", "open"}, method \in {"get", "post", "GET", "POST"} :
          RequestEnter(given, method)
    \/ RequestReturns
    \/ RequestContentTypeError
    \/ \E out \in {"ContentTypeError", "OtherError"} : RequestExcept(out)
    \/ RequestOtherError
    \/ RequestFinally

SpecRequest == RestInit /\ [][RequestNext]_vars

(***************************************************************************)
(* The parser command: on_package over the captured packets of the         *)
(* device's TCP connection.  A byte is named by the direction of its       *)
(* stream and its position in it.  buffer is buffer["data"]; sent counts   *)
(* the bytes captured so far of each direction; fed, dir and raised        *)
(* describe the last call of MessageParser.parse; decoded counts, for each *)
(* direction, its bytes that parse has returned inside messages; expect is *)
(* the position of the first byte of dir not yet decoded when parse was    *)
(* called.                                                                 *)
(***************************************************************************)
FrameLen   == 2    \* bytes of one frame
MaxStream  == 3    \* captured bytes of one direction
MaxPayload == 2    \* bytes of one packet
MaxIgnored == 1    \* captured packets that on_package passes over

\* bytes.fromhex(packet.DATA.data): the next n bytes of the direction's stream
PacketBytes(dir, from, n) == [k \in 1..n |-> [dir |-> dir, i |-> from + k - 1]]

\* MessageParser.parse: every complete frame at the head of the data, and the tail.
Parse(data) ==
    LET whole == (Len(data) \div FrameLen) * FrameLen
    IN  [messages  |-> SubSeq(data, 1, whole),
         remaining |-> SubSeq(data, whole + 1, Len(data))]

\* capture = FileCapture(file) or LiveCapture(...); buffer = {"data": b""}
ParserStart ==
    /\ capture.pc = "off"
    /\ capture' = [capture EXCEPT !.pc = "capturing"]
    /\ UNCHANGED <<now, buckets, base_url, tasks, lim_last, hawk, extra, http, mqtt, disp>>

\* on_package for a TCP packet with data to the device (a request) or from it (a
\* response): both branches parse buffer["data"] + the packet's bytes and store
\* the remainder in buffer["data"]; when parse raises, the exception is printed.
OnPackage(dir, n, raises) ==
    /\ capture.pc = "capturing"
    /\ n \in 1..MaxPayload
    /\ capture.sent[dir] + n <= MaxStream
    /\ LET data == capture.buffer \o PacketBytes(dir, capture.sent[dir] + 1, n)
           f    == Parse(data)
       IN  capture' =
             [capture EXCEPT
                !.sent[dir] = @ + n,
                !.fed = data, !.dir = dir, !.raised = raises,
                !.expect = capture.decoded[dir] + 1,
                !.buffer = IF raises THEN @ ELSE f.remaining,
                !.decoded = IF raises THEN @
                            ELSE [d \in {"request", "response"} |->
                                    @[d] + Cardinality({k \in DOMAIN f.messages :
                                                          f.messages[k].dir = d})],
                !.messages = IF raises THEN @ ELSE @ + Len(f.messages) \div FrameLen]
    /\ UNCHANGED <<now, buckets, base_url, tasks, lim_last, hawk, extra, http, mqtt, disp>>

\* on_package for any other packet: no ip layer, not TCP, another host, no data.
OnOtherPackage ==
    /\ capture.pc = "capturing"
    /\ capture.packets < MaxIgnored
    /\ capture' = [capture EXCEPT !.packets = @ + 1]
    /\ UNCHANGED <<now, buckets, base_url, tasks, lim_last, hawk, extra, http, mqtt, disp>>

\* packets_from_tshark returns: the capture is over.
ParserEnd ==
    /\ capture.pc = "capturing"
    /\ capture' = [capture EXCEPT !.pc = "done"]
    /\ UNCHANGED <<now, buckets, base_url, tasks, lim_last, hawk, extra, http, mqtt, disp>>

ParserNext ==
    \/ ParserStart
    \/ \E dir \in {"request", "response"}, n \in 1..MaxPayload, raises \in BOOLEAN : OnPackage(dir, n, raises)
    \/ OnOtherPackage
    \/ ParserEnd

SpecParser == RestInit /\ [][ParserNext]_vars

(***************************************************************************)
(* The session command.  devices is len(all_devices); session is the       *)
(* broker session ("none" before create_mqtt_session returns); subscribed  *)
(* lists, per subscribe call, the session it was made on; unsubs is the    *)
(* list of handles; unsubscribed counts the calls of each handle; late     *)
(* tells that a handle was called after the session was closed.            *)
(***************************************************************************)
MaxDevices  == 3    \* devices of the account
MaxReceived == 2    \* messages the broker delivers

\* session up to create_mqtt_session: discovery when no home data is cached, and
\* "Unable to discover devices" when there is none.
SessionStart(cached, n) ==
    /\ mqtt.pc = "off"
    /\ n \in 0..MaxDevices
    /\ mqtt' = [mqtt EXCEPT !.pc = IF n = 0 THEN "failed" ELSE "await_session",
                            !.cached = cached, !.devices = n,
                            !.exc = IF n = 0 THEN "RoborockException" ELSE ""]
    /\ UNCHANGED <<now, buckets, base_url, tasks, lim_last, hawk, extra, http, capture, disp>>

\* create_mqtt_session raises: there is no session.
SessionCreateFails ==
    /\ mqtt.pc = "await_session"
    /\ mqtt' = [mqtt EXCEPT !.pc = "failed", !.exc = "MqttSessionException"]
    /\ UNCHANGED <<now, buckets, base_url, tasks, lim_last, hawk, extra, http, capture, disp>>

\* mqtt_session = await create_mqtt_session(params);
\* if not mqtt_session.connected: raise RoborockException(...)
SessionCreated(connected) ==
    /\ mqtt.pc = "await_session"
    /\ mqtt' = [mqtt EXCEPT !.pc = IF connected THEN "subscribing" ELSE "failed",
                            !.session = "open", !.sessions = @ + 1, !.connected = connected,
                            !.exc = IF connected THEN "" ELSE "RoborockException"]
    /\ UNCHANGED <<now, buckets, base_url, tasks, lim_last, hawk, extra, http, capture, disp>>

\* unsub = await mqtt_session.subscribe(device_topic, on_message); unsubs.append(unsub)
\* for the next device, or subscribe raising; after the last device the command sleeps.
Subscribe(raises) ==
    /\ mqtt.pc = "subscribing"
    /\ IF raises
       THEN mqtt' = [mqtt EXCEPT !.pc = "failed", !.exc = "MqttSessionException"]
       ELSE mqtt' = [mqtt EXCEPT !.subscribed = Append(@, mqtt.sessions),
                                 !.unsubs = Append(@, Len(mqtt.subscribed) + 1),
                                 !.unsubscribed = Append(@, 0),
                                 !.pc = IF Len(mqtt.subscribed) + 1 = mqtt.devices
                                        THEN "sleeping" ELSE "subscribing"]
    /\ UNCHANGED <<now, buckets, base_url, tasks, lim_last, hawk, extra, http, capture, disp>>

\* on_message: the broker delivers a message of a subscription that is still there.
OnMessage(d) ==
    /\ mqtt.session = "open"
    /\ d \in DOMAIN mqtt.subscribed
    /\ mqtt.unsubscribed[d] = 0
    /\ mqtt.received < MaxReceived
    /\ mqtt' = [mqtt EXCEPT !.received = @ + 1]
    /\ UNCHANGED <<now, buckets, base_url, tasks, lim_last, hawk, extra, http, capture, disp>>

\* asyncio.sleep(duration) is over: for unsub in unsubs: unsub()
Unsubscribe ==
    /\ mqtt.pc = "sleeping"
    /\ mqtt' = [mqtt EXCEPT !.pc = "await_close",
                            !.unsubscribed =
                               [d \in DOMAIN @ |->
                                  @[d] + Cardinality({k \in DOMAIN mqtt.unsubs : mqtt.unsubs[k] = d})],
                            !.late = @ \/ (mqtt.session = "closed" /\ mqtt.unsubs # <<>>)]
    /\ UNCHANGED <<now, buckets, base_url, tasks, lim_last, hawk, extra, http, capture, disp>>

\* await mqtt_session.close()
SessionClose ==
    /\ mqtt.pc = "await_close"
    /\ mqtt' = [mqtt EXCEPT !.pc = "done", !.session = "closed"]
    /\ UNCHANGED <<now, buckets, base_url, tasks, lim_last, hawk, extra, http, capture, disp>>

SessionNext ==
    \/ \E cached \in BOOLEAN, n \in 0..MaxDevices : SessionStart(cached, n)
    \/ SessionCreateFails
    \/ \E connected \in BOOLEAN : SessionCreated(connected)
    \/ \E raises \in BOOLEAN : Subscribe(raises)
    \/ \E d \in 1..MaxDevices : OnMessage(d)
    \/ Unsubscribe
    \/ SessionClose

SpecSession == RestInit /\ [][SessionNext]_vars

(***************************************************************************)
(* The command dispatcher of one device session, which send_command of the *)
(* command command runs on.  pending is the PendingRequest table (records  *)
(* of identifier, caller and deadline), next the identifier counter, wire  *)
(* the responses on their way to the session, sink the unsolicited         *)
(* messages handed to the sink, done the callers in the order their calls  *)
(* ended, call the state of each caller's call.  The clock is now.         *)
(***************************************************************************)
MaxIds     == 2    \* identifiers before the counter wraps
MaxTimeout == 1    \* longest timeout of a call
MaxClock   == 2    \* last instant of the clock
MaxCalls   == 3    \* calls made on the session

Callers == {"a", "b"}

Outstanding(pending) == {p.id : p \in pending}

\* The counter's next value, whatever is outstanding.
AllocateNext(next, pending) == next

\* A fresh identifier: the counter's next value, stepping over outstanding ones.
Allocate(next, pending) ==
    LET after(k) == ((next + k - 1) % MaxIds) + 1
        free     == {k \in 0..(MaxIds - 1) : after(k) \notin Outstanding(pending)}
    IN  IF free = {} THEN 0
        ELSE after(CHOOSE k \in free : \A j \in free : k <= j)

\* The deadline of a pending request counts as elapsed one instant early.
ExpiredEarly(p, clock) == clock + 1 >= p.deadline

\* The deadline of a pending request has elapsed.
Expired(p, clock) == clock >= p.deadline

\* The session of the device is made, with or without a sink for unsolicited messages.
DispOpen(sink_on) ==
    /\ disp.pc = "off"
    /\ disp' = [disp EXCEPT !.pc = "open", !.sink_on = sink_on]
    /\ UNCHANGED <<now, buckets, base_url, tasks, lim_last, hawk, extra, http, capture, mqtt>>

\* call: allocate an identifier, register the pending request with its deadline,
\* send the request; the caller is suspended.  The device's response is on its way.
Call(c, T) ==
    /\ disp.pc = "open"
    /\ disp.call[c].pc # "waiting"
    /\ disp.calls < MaxCalls
    /\ T \in 1..MaxTimeout
    /\ now + T <= MaxClock
    /\ LET id == Allocate(disp.next, disp.pending)
       IN  /\ id # 0
           /\ disp' = [disp EXCEPT
                 !.next = (id % MaxIds) + 1,
                 !.calls = @ + 1,
                 !.pending = @ \cup {[id |-> id, caller |-> c, deadline |-> now + T]},
                 !.wire = @ \cup {[id |-> id, serial |-> disp.calls + 1]},
                 !.call[c] = [pc |-> "waiting", id |-> id, serial |-> disp.calls + 1,
                              issued |-> now, timeout |-> T,
                              result |-> [id |-> 0, serial |-> 0]]]
    /\ UNCHANGED <<now, buckets, base_url, tasks, lim_last, hawk, extra, http, capture, mqtt>>

\* An inbound decoded message: it resolves the caller of the pending request with
\* its identifier, which is removed; without one it goes to the sink, if there is one.
Deliver(m) ==
    /\ disp.pc = "open"
    /\ m \in disp.wire
    /\ LET matching == {p \in disp.pending : p.id = m.id}
           woken(c) == \E p \in matching : p.caller = c
       IN  disp' = [disp EXCEPT
                 !.wire = @ \ {m},
                 !.pending = @ \ matching,
                 !.sink = IF matching = {} /\ disp.sink_on THEN @ \cup {m} ELSE @,
                 !.done = @ \o SelectSeq(<<"a", "b">>, woken),
                 !.call = [c \in Callers |->
                             IF woken(c)
                             THEN [@[c] EXCEPT !.pc = "resolved", !.result = m]
                             ELSE @[c]]]
    /\ UNCHANGED <<now, buckets, base_url, tasks, lim_last, hawk, extra, http, capture, mqtt>>

\* The deadline of a caller's pending request elapses: the caller fails with
\* Timeout and the pending request is removed.
Timeout(c) ==
    /\ disp.pc = "open"
    /\ disp.call[c].pc = "waiting"
    /\ \E p \in disp.pending :
          /\ p.caller = c
          /\ Expired(p, now)
          /\ disp' = [disp EXCEPT !.pending = @ \ {p},
                                  !.done = Append(@, c),
                                  !.call[c] = [@ EXCEPT !.pc = "timeout"]]
    /\ UNCHANGED <<now, buckets, base_url, tasks, lim_last, hawk, extra, http, capture, mqtt>>

\* Time passes.
DispTick ==
    /\ disp.pc = "open"
    /\ now < MaxClock
    /\ now' = now + 1
    /\ UNCHANGED <<buckets, base_url, tasks, lim_last, hawk, extra, http, capture, mqtt, disp>>

DispNext ==
    \/ \E sink_on \in BOOLEAN : DispOpen(sink_on)
    \/ \E c \in Callers, T \in 1..MaxTimeout : Call(c, T)
    \/ \E m \in disp.wire : Deliver(m)
    \/ \E c \in Callers : Timeout(c)
    \/ DispTick

SpecDispatch == RestInit /\ [][DispNext]_vars

\* The timer of every pending request fires and the clock goes on.
SpecDispatchFair ==
    /\ RestInit /\ [][DispNext]_vars
    /\ WF_vars(DispTick)
    /\ \A c \in Callers : WF_vars(Timeout(c))

(***************************************************************************)
(* Properties of the limiters.                                             *)
(***************************************************************************)
\* The rules as the specification states them: <<maximum, window length>>.
StatedRules(l) ==
    IF l = "home_data"
    THEN << <<1, SECOND>>, <<5, MINUTE>>, <<15, HOUR>>, <<40, DAY>> >>
    ELSE << <<1, SECOND>>, <<3, MINUTE>>, <<10, HOUR>>, <<20, DAY>> >>

\* The admitted acquisitions of items inside the rolling window (t - d, t].
InWindow(items, d, t) == Cardinality({j \in 1..Len(items) : items[j] > t - d /\ items[j] <= t})

\* C1: for the login limiter (1/second, 3/minute, 10/hour, 20/day) and the home-data
\* limiter (1/second, 5/minute, 15/hour, 40/day), after any sequence of try_acquire
\* calls, no rolling window of a configured length holds more admitted acquisitions
\* than its maximum; in particular the window that ends at an admitted acquisition
\* had capacity left for it.
C1_WindowsNeverExceeded ==
    \A l \in {"login", "home_data"} :
        \A k \in 1..4 :
            \A i \in 1..Len(Bucket(l)) :
                InWindow(Bucket(l), StatedRules(l)[k][2], Bucket(l)[i]) <= StatedRules(l)[k][1]

\* C1's case: the login limiter refuses a call because its day window holds 20
\* acquisitions, while the second, minute and hour windows have capacity.
C1_Witness ==
    /\ lim_last.limiter = "login" /\ lim_last.tried /\ ~lim_last.ok /\ lim_last.at = now
    /\ InWindow(Bucket("login"), DAY, now) = 20
    /\ \A k \in 1..3 :
          InWindow(Bucket("login"), StatedRules("login")[k][2], now) < StatedRules("login")[k][1]

\* The acquisitions of the two-rule limiter admitted before the last call and at most
\* d before it.
RecentBefore(d) ==
    LET items == Bucket("two_rules")
        last  == IF lim_last.ok THEN Len(items) - 1 ELSE Len(items)
    IN  {j \in 1..last : lim_last.at - items[j] <= d}

\* C3: with the rules (1 per second, 3 per minute): a call with no admitted call
\* before it is admitted; a call is never admitted less than a second after an admitted
\* one; a call is never admitted as the fourth of a minute, however long after the
\* third; and a call is refused only for one of these two reasons, so that three calls
\* a minute are admitted, no more and no fewer.
C3_TwoRules ==
    (lim_last.limiter = "two_rules" /\ lim_last.tried) =>
        /\ ~lim_last.ok => Bucket("two_rules") # <<>>
        /\ lim_last.ok => \A j \in RecentBefore(MINUTE) :
                             lim_last.at - Bucket("two_rules")[j] >= SECOND
        /\ lim_last.ok => Cardinality(RecentBefore(MINUTE - 1)) + 1 <= 3
        /\ ~lim_last.ok => \/ RecentBefore(SECOND) # {}
                           \/ Cardinality(RecentBefore(MINUTE)) >= 3

\* C3's case: the fourth call of a minute is refused although the last admitted call
\* is more than a second old.
C3_Witness ==
    /\ lim_last.limiter = "two_rules" /\ lim_last.tried /\ ~lim_last.ok
    /\ RecentBefore(SECOND) = {}
    /\ Cardinality(RecentBefore(MINUTE)) = 3

(***************************************************************************)
(* Properties of the signer.                                               *)
(***************************************************************************)
Orders(n) == {f \in [1..n -> 1..n] : \A i, j \in 1..n : i # j => f[i] # f[j]}

\* The dicts that hold the pairs of d, in every insertion order.
Reorderings(d) ==
    {Dict([i \in 1..Len(d.items) |-> d.items[f[i]]]) : f \in Orders(Len(d.items))}

\* The pairs of d by ascending key, each as key=value, joined with "&".
CanonicalText(d) ==
    LET n == Len(d.items)
        f == CHOOSE g \in Orders(n) :
                \A i \in 1..(n - 1) : StrLess(d.items[g[i]][1], d.items[g[i + 1]][1])
    IN  Join([i \in 1..n |-> Str(d.items[f[i]][1]) \o <<"=">> \o Str(d.items[f[i]][2])],
             <<"&">>)

\* C8: the digest of a parameter set is the hash of its key=value pairs, by ascending
\* key and joined with "&", so every insertion order of the same pairs gives the same
\* digest; for the absent parameter set (None) it is the empty string, which is not the
\* hash of the empty text.
C8_CanonicalDigest ==
    extra.out # None =>
        /\ extra.values.none => (extra.out = <<>> /\ extra.out # Md5(<<>>))
        /\ ~extra.values.none =>
              /\ extra.out = Md5(CanonicalText(extra.values))
              /\ \A r \in Reorderings(extra.values) : ProcessExtraHawkValues(r) = extra.out

\* C8's case: the digest of two pairs that were inserted in descending key order.
C8_Witness ==
    /\ extra.out # None /\ ~extra.values.none
    /\ Len(extra.values.items) = 2
    /\ StrLess(extra.values.items[2][1], extra.values.items[1][1])

\* Two parameter sets are the same input when they hold the same pairs.
SameDict(d, e) ==
    /\ d.none = e.none
    /\ {d.items[i] : i \in 1..Len(d.items)} = {e.items[i] : i \in 1..Len(e.items)}

SameInputs(a, b) ==
    /\ a.rriot = b.rriot /\ a.url = b.url /\ a.ts = b.ts /\ a.nonce = b.nonce
    /\ SameDict(a.params, b.params) /\ SameDict(a.formdata, b.formdata)

\* C7: for a fixed timestamp and nonce, the signature header is a function of the
\* credential, the path, the query parameters and the form parameters: the same inputs
\* give the same header, and inputs that differ in a key or a value, or in the key a
\* value is filed under, give a different one.
C7_SignatureSeparatesInputs ==
    hawk.out # None =>
        \A other \in SignInputs :
            (other.ts = hawk.ts /\ other.nonce = hawk.nonce) =>
                (SameInputs(other, hawk) <=> HawkOf(other) = hawk.out)

(***************************************************************************)
(* Properties of the REST operations.                                      *)
(***************************************************************************)
\* The closed-window counts of a limiter's bucket at the clock, one for each stated rule.
Counters(items, l) == [k \in 1..4 |-> WindowCount(items, StatedRules(l)[k][2], now)]

\* C2: a try_acquire that is refused because a window is full changes no window
\* counter of its limiter, the counters of the windows with capacity included: the
\* bucket is after the call what it was before it.
C2_RejectedChangesNothing ==
    [][ (lim_last'.steps = lim_last.steps + 1 /\ now' = now /\ ~lim_last'.ok) =>
            /\ Bucket(lim_last.limiter)' = Bucket(lim_last.limiter)
            /\ \A l \in {"login", "home_data"} :
                  Counters(Bucket(l)', l) = Counters(Bucket(l), l) ]_vars

\* C2's case: the home-data limiter has refused a call for its minute window, which
\* holds five acquisitions, while its second window was empty.
C2_Witness ==
    /\ lim_last.limiter = "home_data" /\ lim_last.tried /\ ~lim_last.ok /\ lim_last.at = now
    /\ Counters(Bucket("home_data"), "home_data")[1] = 0
    /\ Counters(Bucket("home_data"), "home_data")[2] = 5

\* The step is a call of task t: the task was idle and is not as it was.
CallStep(t) == Idle(t) /\ tasks'[t] # tasks[t]

Rejected(task) == task.pc = "idle" /\ task.res.exc = "RoborockRateLimit"

LoginOps == {"request_code", "pass_login"}

HomeDataOps == {"get_home_data", "get_home_data_v2", "get_home_data_v3"}

\* The limiter an operation draws from, by the category the specification gives it.
StatedLimiter(op) == IF op \in LoginOps THEN "login" ELSE "home_data"

\* A window of limiter l is full at the clock.
Full(l) ==
    \E k \in 1..4 : WindowCount(Bucket(l), StatedRules(l)[k][2], now) >= StatedRules(l)[k][1]

\* C4: a call of request_code, pass_login, get_home_data, get_home_data_v2 or
\* get_home_data_v3 that finds a window of its limiter full ends in that same step with
\* RoborockRateLimit, having sent no request: it does not wait, and nothing of it is
\* left to run later.
C4_RejectedCallFailsAtOnce ==
    [][ \A t \in Tasks :
          (/\ CallStep(t)
           /\ tasks'[t].op \in LoginOps \cup HomeDataOps
           /\ Full(StatedLimiter(tasks'[t].op))) =>
              /\ Rejected(tasks'[t])
              /\ tasks'[t].sent = 0
              /\ tasks'[t].req = NoRequest ]_vars

\* C4's case: a get_home_data_v3 call has ended with RoborockRateLimit and no request.
C4_Witness ==
    \E t \in Tasks :
        /\ tasks[t].op = "get_home_data_v3" /\ Rejected(tasks[t]) /\ tasks[t].sent = 0
        /\ tasks[t].at = now

\* A call that drew from the login limiter and was admitted.
AdmittedLogin(task) == task.op \in LoginOps /\ ~Rejected(task)

\* C5: the login limiter is one for all clients and tasks: of the calls of
\* request_code and pass_login that different tasks make, on one client or on two, no
\* two that are less than a second apart are both admitted.
C5_OneAdmittedPerSecond ==
    \A t, u \in Tasks :
        (t # u /\ AdmittedLogin(tasks[t]) /\ AdmittedLogin(tasks[u])) =>
            \/ tasks[t].at - tasks[u].at >= SECOND
            \/ tasks[u].at - tasks[t].at >= SECOND

\* C5's case: two tasks on two clients have called at the same instant while the first
\* call was still waiting for its response; one was admitted, the other refused.
C5_Witness ==
    \E t, u \in Tasks :
        /\ tasks[t].client # tasks[u].client
        /\ tasks[t].at = tasks[u].at
        /\ AdmittedLogin(tasks[t]) /\ tasks[t].pc # "idle"
        /\ tasks[u].op \in LoginOps /\ Rejected(tasks[u])

\* C6: the two categories count apart.  A call of request_code or pass_login, admitted
\* or refused, leaves the home-data bucket as it was, and is refused only when a login
\* window is full of login calls; a get_home_data* call leaves the login bucket as it
\* was, and is refused only when a home-data window is full of home-data calls.
C6_CategoriesIndependent ==
    [][ \A t \in Tasks :
          (CallStep(t) /\ tasks'[t].op \in LoginOps \cup HomeDataOps) =>
              /\ tasks'[t].op \in LoginOps => Bucket("home_data")' = Bucket("home_data")
              /\ tasks'[t].op \in HomeDataOps => Bucket("login")' = Bucket("login")
              /\ Rejected(tasks'[t]) => Full(StatedLimiter(tasks'[t].op)) ]_vars

\* C6's case: a get_home_data_v2 call is admitted at an instant at which the login
\* limiter has just admitted a call, so that its second window is full.
C6_Witness ==
    \E t \in Tasks :
        /\ tasks[t].op = "get_home_data_v2" /\ ~Rejected(tasks[t]) /\ tasks[t].at = now
        /\ Full("login")
        /\ Bucket("home_data") # <<>>

SignedOps ==
    {"nc_prepare", "add_device", "get_home_data", "get_home_data_v2", "get_home_data_v3",
     "get_rooms", "get_scenes", "execute_scene"}

\* C9: the request that nc_prepare, add_device, get_home_data, get_home_data_v2,
\* get_home_data_v3, get_rooms, get_scenes or execute_scene sends to the signed endpoint
\* carries as its Authorization header the signer's output for the path, the query
\* parameters and the form parameters of that same request.
C9_SignedOverWhatIsSent ==
    \A t \in Tasks :
        (tasks[t].pc = "await_main" /\ tasks[t].op \in SignedOps) =>
            /\ tasks[t].req.signed.by
            /\ tasks[t].req.auth =
                  GetHawkAuthentication(RriotOf(tasks[t].ud), SentPath(tasks[t].req.url),
                                        tasks[t].req.data, tasks[t].req.params,
                                        tasks[t].req.signed.ts, tasks[t].req.signed.nonce)

\* text holds sub as a run of consecutive characters.
Contains(text, sub) ==
    \E i \in 0..(Len(text) - Len(sub)) : SubSeq(text, i + 1, i + Len(sub)) = sub

\* The code check a call ended in: that of _get_base_url, of _get_home_id, or its own.
CheckOf(task) ==
    CASE task.stage = "base_url" -> "_get_base_url"
      [] task.stage = "home_id"  -> "_get_home_id"
      [] OTHER                   -> task.op

\* The codes a check maps to an error kind of their own.
MappedCodes(check) ==
    CASE check = "_get_base_url" -> {2003, 1001, 9002}
      [] check = "request_code"  -> {2008, 9002}
      [] check = "code_login"    -> {2018, 3009, 3006}
      [] check = "_get_home_id"  -> {2010}
      [] OTHER                   -> {}

CodeChecks ==
    {"_get_base_url", "request_code", "pass_login", "code_login", "_get_home_id", "get_products"}

\* C10: in _get_base_url, request_code, pass_login, code_login, _get_home_id and
\* get_products, a response whose code is neither 200 nor one the operation maps ends
\* the call with a generic failure whose text holds the response's code and its msg.
C10_UnmappedCodeCarriesCodeAndMsg ==
    \A t \in Tasks :
        (/\ tasks[t].pc = "idle" /\ tasks[t].stage # "none"
         /\ CheckOf(tasks[t]) \in CodeChecks
         /\ ~tasks[t].resp.none /\ tasks[t].resp.fault = ""
         /\ tasks[t].resp.code # IntV(200)
         /\ tasks[t].resp.code \notin {IntV(c) : c \in MappedCodes(CheckOf(tasks[t]))}) =>
            /\ tasks[t].res.status = "error"
            /\ tasks[t].res.exc \in {"RoborockException", "RoborockUrlException"}
            /\ Contains(tasks[t].res.text, Str(tasks[t].resp.code))
            /\ Contains(tasks[t].res.text, Str(tasks[t].resp.msg))

\* The error kind the specification gives a mapped code of a check.
OwnKind(check, code) ==
    CASE check = "_get_base_url" /\ code = 2003 -> "RoborockInvalidEmail"
      [] check = "_get_base_url" /\ code = 1001 -> "RoborockMissingParameters"
      [] check = "_get_base_url" /\ code = 9002 -> "RoborockTooManyRequest"
      [] check = "request_code" /\ code = 2008  -> "RoborockAccountDoesNotExist"
      [] check = "request_code" /\ code = 9002  -> "RoborockTooFrequentCodeRequests"
      [] check = "code_login" /\ code = 2018    -> "RoborockInvalidCode"
      [] check = "code_login" /\ code = 3009    -> "RoborockNoUserAgreement"
      [] check = "code_login" /\ code = 3006    -> "RoborockInvalidUserAgreement"
      [] check = "_get_home_id" /\ code = 2010  -> "RoborockInvalidCredentials"
      [] OTHER                                  -> "none"

\* C11: a response with a mapped code (getUrlByEmail 2003, 1001, 9002; sendEmailCode
\* 2008, 9002; loginWithCode 2018, 3009, 3006; getHomeDetail 2010) ends the call with
\* the error kind of that code, and the error's text holds the msg of the response.
C11_MappedCodeOwnKindWithMessage ==
    \A t \in Tasks :
        \A c \in MappedCodes(CheckOf(tasks[t])) :
            (/\ tasks[t].pc = "idle" /\ tasks[t].stage # "none"
             /\ ~tasks[t].resp.none /\ tasks[t].resp.fault = ""
             /\ tasks[t].resp.code = IntV(c)) =>
                /\ tasks[t].res.status = "error"
                /\ tasks[t].res.exc = OwnKind(CheckOf(tasks[t]), c)
                /\ Contains(tasks[t].res.text, Str(tasks[t].resp.msg))

\* RoborockException and its subclasses.
RoborockFamily ==
    {"RoborockException", "RoborockUrlException", "RoborockRateLimit",
     "RoborockInvalidEmail", "RoborockMissingParameters", "RoborockTooManyRequest",
     "RoborockAccountDoesNotExist", "RoborockTooFrequentCodeRequests",
     "RoborockInvalidCode", "RoborockNoUserAgreement", "RoborockInvalidUserAgreement",
     "RoborockInvalidCredentials"}

\* C12: whatever the responses hold (no body, a non-success body, data or result of
\* an unexpected type, missing keys) and whether or not user_data has an rriot, a call
\* whose requests all got an answer ends with a result or with an error of the
\* RoborockException family, never with an AttributeError, KeyError or TypeError.
C12_EveryFailureTyped ==
    \A t \in Tasks :
        (tasks[t].pc = "idle" /\ tasks[t].res.status = "error" /\ tasks[t].resp.fault = "") =>
            tasks[t].res.exc \in RoborockFamily

IsPrefix(a, b) == Len(a) <= Len(b) /\ SubSeq(b, 1, Len(a)) = a

\* C17: an acquisition, once admitted, stays counted: no step takes an acquisition out
\* of a bucket.  It is taken at the call, before any validation: a call of
\* request_code, pass_login or get_home_data* that finds capacity adds the clock to the
\* bucket of its category whatever becomes of the call, request_code and pass_login
\* to the same one, so that a login call is refused while a login window is full;
\* a code_login call adds nothing; no response, failure or fault changes a bucket.
C17_AdmittedStaysCounted ==
    [][ /\ \A l \in {"login", "home_data"} : IsPrefix(Bucket(l), Bucket(l)')
        /\ \A t \in Tasks :
             /\ (CallStep(t) /\ tasks'[t].op \in LoginOps \cup HomeDataOps) =>
                   IF Full(StatedLimiter(tasks'[t].op))
                   THEN Rejected(tasks'[t]) /\ buckets' = buckets
                   ELSE /\ ~Rejected(tasks'[t])
                        /\ \A l \in {"login", "home_data"} :
                              l = StatedLimiter(tasks'[t].op) =>
                                  Bucket(l)' = Append(Bucket(l), now)
             /\ (CallStep(t) /\ tasks'[t].op \notin LoginOps \cup HomeDataOps) =>
                   buckets' = buckets
             /\ (~Idle(t) /\ tasks'[t] # tasks[t]) => buckets' = buckets ]_vars

\* C17's case: a get_home_data call on a user_data without rriot was admitted, has
\* failed before any request, and its acquisition is in the home-data bucket.
C17_Witness ==
    \E t \in Tasks :
        /\ tasks[t].op = "get_home_data" /\ tasks[t].pc = "idle" /\ tasks[t].sent = 0
        /\ tasks[t].res.text = <<"rriot is none">>
        /\ \E i \in 1..Len(Bucket("home_data")) : Bucket("home_data")[i] = tasks[t].at

\* The step is the answer to the getUrlByEmail request of task t, a task of client c.
LookupStep(t, c) ==
    tasks[t].pc = "await_base_url" /\ tasks[t].client = c /\ tasks'[t] # tasks[t]

\* The answer holds a data dict, which _get_base_url stores the url of.
Stores(resp) == ~resp.none /\ resp.fault = "" /\ resp.code = IntV(200) /\ resp.data = "dict"

\* C18: the base url of a client is resolved at most once.  While base_url is set, a
\* call sends no getUrlByEmail request and its own request goes to the stored url;
\* a lookup that fails (no response, a code other than 200, no data) leaves base_url
\* as it was; a lookup stores a url only into a base_url that is unset; and a base_url
\* that is set does not change.
C18_BaseUrlResolvedOnce ==
    [][ \A c \in Clients :
          /\ ~Falsy(base_url[c]) => base_url'[c] = base_url[c]
          /\ \A t \in Tasks :
               /\ (CallStep(t) /\ tasks'[t].client = c /\ tasks'[t].pc = "await_base_url") =>
                     Falsy(base_url[c])
               /\ (/\ CallStep(t) /\ tasks'[t].client = c /\ ~Falsy(base_url[c])
                   /\ tasks'[t].op \in {"request_code", "pass_login", "code_login"}
                   /\ ~Rejected(tasks'[t])) =>
                     (tasks'[t].pc = "await_main" /\ tasks'[t].req.base = base_url[c])
               /\ (LookupStep(t, c) /\ ~Stores(tasks'[t].resp)) =>
                     (tasks'[t].pc = "idle" /\ base_url'[c] = base_url[c])
               /\ (LookupStep(t, c) /\ Stores(tasks'[t].resp)) => Falsy(base_url[c]) ]_vars

\* C19: PreparedRequest.request closes a session if and only if it made it.  A
\* request that was given a session makes none and leaves the given one open, on
\* every way out, so that the next request can use it; a request that was given none
\* makes one, and when the request is over (by return, by ContentTypeError, by any
\* other exception) every session made so far has been closed, each once.
C19_ClosesOwnSessionOnly ==
    /\ http.given # "closed"
    /\ http.given = "open" => (http.created = 0 /\ http.closed = 0)
    /\ http.closed <= http.created
    /\ http.pc = "done" => http.closed = http.created
    /\ (http.pc \notin {"off", "done"} /\ http.given = "none") =>
          http.created = http.closed + 1

\* C19's case: the second request without a given session has ended with an
\* exception other than ContentTypeError raised in the except branch or before it.
C19_Witness ==
    /\ http.pc = "done" /\ http.given = "none" /\ http.calls = 2
    /\ http.out = "OtherError" /\ http.created = 2

\* C15: in the parser command the bytes handed to the decoder for a packet are
\* bytes of that packet's direction only, in stream order without a gap or a
\* repetition, from the first byte of the direction not yet decoded up to the last
\* byte of the packet; and after a call that returned, the stored remainder is the
\* remainder the decoder returned.
C15_DecoderGetsOneDirectionStream ==
    capture.dir # "" =>
        /\ \A k \in DOMAIN capture.fed : capture.fed[k].dir = capture.dir
        /\ \A k \in 1..(Len(capture.fed) - 1) : capture.fed[k + 1].i = capture.fed[k].i + 1
        /\ capture.fed[1].i = capture.expect
        /\ capture.fed[Len(capture.fed)].i = capture.sent[capture.dir]
        /\ ~capture.raised => capture.buffer = Parse(capture.fed).remaining

\* C16: the session command makes every subscription on the one broker session it
\* created, one for each device once all are made; and whenever the command is
\* over after a broker session was created, by return or by an exception, every
\* subscription made has been unsubscribed exactly once, none of them after the
\* close, and the broker session is closed.
C16_SessionCleansUp ==
    /\ mqtt.sessions <= 1
    /\ \A d \in DOMAIN mqtt.subscribed : mqtt.subscribed[d] = 1
    /\ mqtt.pc \in {"sleeping", "await_close", "done"} => Len(mqtt.subscribed) = mqtt.devices
    /\ ~mqtt.late
    /\ (mqtt.pc \in {"done", "failed"} /\ mqtt.session # "none") =>
          /\ mqtt.session = "closed"
          /\ \A d \in DOMAIN mqtt.subscribed : mqtt.unsubscribed[d] = 1

\* C13: no identifier has two pending requests, a waiting caller has exactly the
\* pending request of its own identifier, and a caller that was resolved was
\* resolved with a message that carries the identifier of its own request,
\* whatever the order in which the responses arrive.
C13_OwnResponseOnly ==
    /\ \A p, q \in disp.pending : p.id = q.id => p = q
    /\ \A c \in Callers :
         /\ disp.call[c].pc = "waiting" =>
               {p \in disp.pending : p.caller = c} =
               {p \in disp.pending : p.id = disp.call[c].id}
         /\ disp.call[c].pc = "waiting" => \E p \in disp.pending : p.caller = c
         /\ disp.call[c].pc = "resolved" => disp.call[c].result.id = disp.call[c].id

\* C13's case: a called first, b called while a was waiting, with another
\* identifier; b's response arrived first, then a's; each has its own.
C13_Witness ==
    /\ disp.call["a"].serial = 1 /\ disp.call["b"].serial = 2
    /\ disp.call["a"].id # disp.call["b"].id
    /\ disp.done = <<"b", "a">>
    /\ disp.call["a"].pc = "resolved" /\ disp.call["a"].result.serial = 1
    /\ disp.call["b"].pc = "resolved" /\ disp.call["b"].result.serial = 2

TimedOut(c) == disp.call[c].pc = "waiting" /\ disp'.call[c].pc = "timeout"

=============================================================================
